---- MODULE Spec2Model ----
(***************************************************************************)
(* Model of the cost clients of infrawallet-backend:                       *)
(*   AwsClient.ts, AzureClient (src/unnamed/part_000) and                  *)
(*   MongoAtlasClient (src/unnamed/part_001).                              *)
(*                                                                         *)
(* Strings that the code slices (service names) are sequences of tokens,   *)
(* each token an indivisible run of characters.  Date-like strings are     *)
(* records of their numeric fields.  Instants are ticks since 2024-01-01   *)
(* 00:00 local time, TicksPerDay ticks to the day.                         *)
(***************************************************************************)
EXTENDS Integers, Sequences, FiniteSets, TLC

VARIABLES
  \* ---- AzureClient.fetchDataWithRetry
  pc,          \* position of the call: "loop", "await", "sleep", "returned", "thrown"
  retries,     \* the local `retries`
  requests,    \* number of sendRequest calls made
  sleeps,      \* sequence of the sleeps performed (seconds each)
  received,    \* sequence of the responses received, in order
  outcome,     \* the value returned or the message of the error thrown
  \* ---- transformCostsData (one call of one provider)
  provider,    \* which client runs: "AWS", "Azure" or "MongoAtlas"
  query,       \* the CostQuery: [granularity, startTime]
  header,      \* MongoAtlas: the CSV header line, split on ','
  costResponse,\* the raw rows the reducer has consumed so far, in order
  accumulator, \* reduce's accumulator: keyName -> Report
  written,     \* history: every assignment to a reports map, with the row that made it
  tpc,         \* "idle", "reduce" or "done"
  \* ---- fetchCosts: the tag filter
  tags,        \* parseTags(query.tags)
  filter,      \* the filter put in the request
  fpc,         \* "idle", "build" or "built"
  \* ---- convertServiceName
  serviceName, \* the raw name
  converted,   \* the result
  npc,         \* "idle", "call" or "returned"
  \* ---- MongoAtlasClient.fetchCostsFromCloud
  cpc,         \* "idle", "invoices", "map", "downloading", "returned" or "thrown"
  invoices,    \* response.data.results: the invoice list
  slots,       \* the promise of each invoice's download, by position in the list
  completed,   \* history: the positions in the order their downloads completed
  csvText,     \* the text returned
  csvError,    \* the message of the error thrown
  \* ---- AwsClient.fetchCosts and AwsClient._fetchTags
  op,          \* which of the two runs
  pages,       \* the provider's result: its pages, in order
  sent,        \* history: the commands sent, in order
  responses,   \* history: the responses received, in order
  results,     \* costAndUsageResults, or results of _fetchTags
  nextPageToken, \* the local nextPageToken
  ppc          \* "idle", "send", "await" or "returned"

retryVars == <<pc, retries, requests, sleeps, received, outcome>>
transformVars == <<query, header, costResponse, accumulator, written, tpc>>
filterVars == <<tags, filter, fpc>>
nameVars == <<serviceName, converted, npc>>
csvVars == <<cpc, invoices, slots, completed, csvText, csvError>>
pageVars == <<op, pages, sent, responses, results, nextPageToken, ppc>>
vars == <<retryVars, provider, transformVars, filterVars, nameVars, csvVars, pageVars>>

(***************************************************************************)
(* Bounds of the model                                                     *)
(***************************************************************************)
MaxRetryAfter == 2      \* retry-after header values are 1..MaxRetryAfter seconds
MaxRows == 2            \* raw rows in one transformCostsData call
MaxTags == 3            \* tags in one query
TicksPerDay == 2        \* resolution of an instant within a day
MaxInvoices == 2        \* invoices in the invoice list
MaxPages == 2           \* pages of one provider result
MaxRequests == 4        \* commands one paginated call may send in the model

(***************************************************************************)
(* AzureClient.fetchDataWithRetry                                          *)
(***************************************************************************)
DefaultMaxRetries == 5
DefaultRetryAfter == 60

NoHeader == 0
\* bodyAsText values: empty, a JSON document, and a non-JSON text
BodyTexts == {"", "{\"properties\":{\"rows\":[]}}", "<html>"}
\* a 200 carries a body; a 429 carries the retry-after header or not; 500 is any other status
Responses ==
  [status : {200, 500}, bodyAsText : BodyTexts, retryAfter : {NoHeader}]
    \cup [status : {429}, bodyAsText : {"", "<html>"}, retryAfter : {NoHeader} \cup 1..MaxRetryAfter]

\* JSON.parse(response.bodyAsText || '{}')
JSONparse(text) ==
  CASE text = "{}" -> "EmptyObject"
    [] text = "{\"properties\":{\"rows\":[]}}" -> "ObjectWithRows"
    [] OTHER -> "SyntaxError"

ParsedBody(response) ==
  JSONparse(IF response.bodyAsText = "" THEN "{}" ELSE response.bodyAsText)

\* parseInt(headers.get(...) || '60', 10)
RetryAfterOf(response) ==
  IF response.retryAfter = NoHeader THEN DefaultRetryAfter ELSE response.retryAfter

TransformIdle ==
  /\ query = [granularity |-> "DAILY", startTime |-> 0]
  /\ header = <<>>
  /\ costResponse = <<>>
  /\ accumulator = <<>>
  /\ written = <<>>
  /\ tpc = "idle"

FilterIdle == tags = <<>> /\ filter = <<>> /\ fpc = "idle"

NameIdle == serviceName = <<>> /\ converted = <<>> /\ npc = "idle"

CsvIdle ==
  /\ cpc = "idle"
  /\ invoices = <<>>
  /\ slots = <<>>
  /\ completed = <<>>
  /\ csvText = <<>>
  /\ csvError = "none"

NoToken == 0

PageIdle ==
  /\ op = "none"
  /\ pages = <<>>
  /\ sent = <<>>
  /\ responses = <<>>
  /\ results = <<>>
  /\ nextPageToken = NoToken
  /\ ppc = "idle"

RetryIdle ==
  /\ pc = "idle"
  /\ retries = 0
  /\ requests = 0
  /\ sleeps = <<>>
  /\ received = <<>>
  /\ outcome = "none"

\* the loop test of line 50
LoopTestOffByOne == retries + 1 < DefaultMaxRetries
LoopTestInclusive == retries <= DefaultMaxRetries
LoopTest == retries < DefaultMaxRetries

RetryInit ==
  /\ provider = "Azure"
  /\ TransformIdle /\ FilterIdle /\ NameIdle /\ CsvIdle /\ PageIdle
  /\ pc = "loop"
  /\ retries = 0
  /\ requests = 0
  /\ sleeps = <<>>
  /\ received = <<>>
  /\ outcome = "none"

\* while (retries < maxRetries) { ... sendRequest
SendRequest ==
  /\ pc = "loop"
  /\ LoopTest
  /\ requests' = requests + 1
  /\ pc' = "await"
  /\ UNCHANGED <<retries, sleeps, received, outcome, provider, transformVars, filterVars, nameVars, csvVars, pageVars>>

\* response.status === 200: return JSON.parse(...)
Receive200 ==
  /\ pc = "await"
  /\ \E r \in Responses :
       /\ r.status = 200
       /\ received' = Append(received, r)
       /\ IF ParsedBody(r) = "SyntaxError"
            THEN pc' = "thrown" /\ outcome' = "SyntaxError"
            ELSE pc' = "returned" /\ outcome' = ParsedBody(r)
  /\ UNCHANGED <<retries, requests, sleeps, provider, transformVars, filterVars, nameVars, csvVars, pageVars>>

\* response.status === 429: warn and start the sleep
Receive429 ==
  /\ pc = "await"
  /\ \E r \in Responses :
       /\ r.status = 429
       /\ received' = Append(received, r)
       /\ sleeps' = Append(sleeps, RetryAfterOf(r))
  /\ pc' = "sleep"
  /\ UNCHANGED <<retries, requests, outcome, provider, transformVars, filterVars, nameVars, csvVars, pageVars>>

\* the timer fires: retries++ and back to the loop test
WakeUp ==
  /\ pc = "sleep"
  /\ retries' = retries + 1
  /\ pc' = "loop"
  /\ UNCHANGED <<requests, sleeps, received, outcome, provider, transformVars, filterVars, nameVars, csvVars, pageVars>>

\* any other status handled like a 429: sleep and try again
ReceiveOtherAsThrottle ==
  /\ pc = "await"
  /\ \E r \in Responses :
       /\ r.status \notin {200, 429}
       /\ received' = Append(received, r)
       /\ sleeps' = Append(sleeps, RetryAfterOf(r))
  /\ pc' = "sleep"
  /\ UNCHANGED <<retries, requests, outcome, provider, transformVars, filterVars, nameVars, csvVars, pageVars>>

\* any other status: throw new Error(response.bodyAsText)
ReceiveOther ==
  /\ pc = "await"
  /\ \E r \in Responses :
       /\ r.status \notin {200, 429}
       /\ received' = Append(received, r)
       /\ outcome' = r.bodyAsText
  /\ pc' = "thrown"
  /\ UNCHANGED <<retries, requests, sleeps, provider, transformVars, filterVars, nameVars, csvVars, pageVars>>

\* loop test fails: throw new Error('Max retries exceeded')
MaxRetriesExceeded ==
  /\ pc = "loop"
  /\ ~ LoopTest
  /\ pc' = "thrown"
  /\ outcome' = "Max retries exceeded"
  /\ UNCHANGED <<retries, requests, sleeps, received, provider, transformVars, filterVars, nameVars, csvVars, pageVars>>

RetryNext ==
  \/ SendRequest
  \/ Receive200
  \/ Receive429
  \/ WakeUp
  \/ ReceiveOther
  \/ MaxRetriesExceeded

SpecRetry == RetryInit /\ [][RetryNext]_vars

Terminated == pc \in {"returned", "thrown"}
All429(n) == Len(received) >= n /\ \A i \in 1..n : received[i].status = 429

\* C1: with the default cap of 5, for every k in 0..4, when the endpoint answers
\* 429 to the first k requests and 200 to request k+1, the call is still running
\* after the k throttled answers, and once the 200 is in it has slept exactly k
\* times, sent exactly k+1 requests and returned the parsed body of the 200.
C1_ThrottledThenSuccess ==
  \A k \in 0..4 :
    /\ (All429(k) /\ Len(received) = k) => ~ Terminated
    /\ ( /\ All429(k)
          /\ Len(received) = k + 1
          /\ received[k + 1].status = 200
          /\ ParsedBody(received[k + 1]) # "SyntaxError" )
        => /\ pc = "returned"
           /\ Len(sleeps) = k
           /\ requests = k + 1
           /\ outcome = ParsedBody(received[k + 1])

\* three 429 answers, then success on the fourth attempt after three sleeps
C1_Witness ==
  /\ pc = "returned"
  /\ All429(3)
  /\ Len(received) = 4
  /\ received[4].status = 200
  /\ Len(sleeps) = 3
  /\ requests = 4

\* C2: one call sends at most 5 requests; when all 5 are answered 429 the call
\* cannot send a 6th and cannot return: the only step left throws
\* 'Max retries exceeded', and that is how it ends.
C2_RetryCap ==
  /\ requests <= 5
  /\ Len(received) <= 5
  /\ (All429(5) /\ pc = "loop") => (~ ENABLED SendRequest /\ ENABLED MaxRetriesExceeded)
  /\ (All429(5) /\ Terminated) =>
        (pc = "thrown" /\ outcome = "Max retries exceeded" /\ requests = 5)
  /\ (pc = "thrown" /\ outcome = "Max retries exceeded") => All429(5)

C2_Witness ==
  /\ pc = "thrown"
  /\ outcome = "Max retries exceeded"
  /\ All429(5)
  /\ requests = 5
  /\ Len(sleeps) = 5

\* C11: the first response whose status is neither 200 nor 429 ends the call at
\* once with an error carrying that response's body: it is the last response
\* received, no sleep follows it (only the 429 answers before it were slept on),
\* no request follows it, and no further step of the call is possible.
C11_OtherStatusFailsAtOnce ==
  \A i \in 1..Len(received) :
    received[i].status \notin {200, 429} =>
      /\ i = Len(received)
      /\ pc = "thrown"
      /\ outcome = received[i].bodyAsText
      /\ requests = i
      /\ Len(sleeps) = i - 1
      /\ \A j \in 1..(i - 1) : received[j].status = 429
      /\ ~ ENABLED RetryNext

\* two 429 answers, then a 500 whose body became the error
C11_Witness ==
  /\ pc = "thrown"
  /\ Len(received) = 3
  /\ All429(2)
  /\ received[3].status = 500
  /\ received[3].bodyAsText = "<html>"
  /\ outcome = "<html>"
  /\ Len(sleeps) = 2
  /\ requests = 3

(***************************************************************************)
Space == " "

\* the words joined by single spaces: Words(<<"Simple","Queue">>) is "Simple Queue"
RECURSIVE Words(_)
Words(ws) ==
  IF Len(ws) = 0 THEN <<>>
  ELSE IF Len(ws) = 1 THEN <<ws[1]>>
  ELSE <<ws[1], Space>> \o Words(Tail(ws))

StartsWith(s, prefix) ==
  Len(s) >= Len(prefix) /\ SubSeq(s, 1, Len(prefix)) = prefix

Slice(s, n) == SubSeq(s, n + 1, Len(s))

RECURSIVE TrimStart(_)
TrimStart(s) ==
  IF Len(s) > 0 /\ s[1] = Space THEN TrimStart(Tail(s)) ELSE s

RECURSIVE TrimEnd(_)
TrimEnd(s) ==
  IF Len(s) > 0 /\ s[Len(s)] = Space THEN TrimEnd(SubSeq(s, 1, Len(s) - 1)) ELSE s

Trim(s) == TrimEnd(TrimStart(s))

(***************************************************************************)
(* convertServiceName of the three clients                                 *)
(***************************************************************************)
AwsPrefixes == << <<"Amazon">>, <<"AWS">> >>
AzurePrefixes == << <<"Azure">> >>
MongoPrefixes == << <<"Atlas">> >>

aliases ==
  (Words(<<"Elastic", "Compute", "Cloud", "-", "Compute">>) :> Words(<<"EC2", "-", "Instances">>))
  @@ (Words(<<"Virtual", "Private", "Cloud">>) :> Words(<<"VPC", "(Virtual", "Private", "Cloud)">>))
  @@ (Words(<<"Relational", "Database", "Service">>)
        :> Words(<<"RDS", "(Relational", "Database", "Service)">>))
  @@ (Words(<<"Simple", "Storage", "Service">>) :> Words(<<"S3", "(Simple", "Storage", "Service)">>))
  @@ (Words(<<"Managed", "Streaming", "for", "Apache", "Kafka">>)
        :> Words(<<"MSK", "(Managed", "Streaming", "for", "Apache", "Kafka)">>))
  @@ (Words(<<"Elastic", "Container", "Service", "for", "Kubernetes">>)
        :> Words(<<"EKS", "(Elastic", "Container", "Service", "for", "Kubernetes)">>))
  @@ (Words(<<"Elastic", "Container", "Service">>)
        :> Words(<<"ECS", "(Elastic", "Container", "Service)">>))
  @@ (Words(<<"EC2", "Container", "Registry", "(ECR)">>)
        :> Words(<<"ECR", "(Elastic", "Container", "Registry)">>))
  @@ (Words(<<"Simple", "Queue", "Service">>) :> Words(<<"SQS", "(Simple", "Queue", "Service)">>))
  @@ (Words(<<"Simple", "Notification", "Service">>)
        :> Words(<<"SNS", "(Simple", "Notification", "Service)">>))
  @@ (Words(<<"Database", "Migration", "Service">>)
        :> Words(<<"DMS", "(Database", "Migration", "Service)">>))

NoAliases == <<>>

\* the slice without the trim
RECURSIVE StripPrefixesNoTrim(_, _, _, _)
StripPrefixesNoTrim(name, prefixes, i, convertedName) ==
  IF i > Len(prefixes) THEN convertedName
  ELSE StripPrefixesNoTrim(name, prefixes, i + 1,
         IF StartsWith(name, prefixes[i])
           THEN Slice(name, Len(prefixes[i]))
           ELSE convertedName)

\* for (const prefix of prefixes) if (serviceName.startsWith(prefix))
\*   convertedName = serviceName.slice(prefix.length).trim()
RECURSIVE StripPrefixes(_, _, _, _)
StripPrefixes(name, prefixes, i, convertedName) ==
  IF i > Len(prefixes) THEN convertedName
  ELSE StripPrefixes(name, prefixes, i + 1,
         IF StartsWith(name, prefixes[i])
           THEN Trim(Slice(name, Len(prefixes[i])))
           ELSE convertedName)

\* if (aliases.has(convertedName)) convertedName = aliases.get(convertedName) || convertedName
ApplyAliases(table, convertedName) ==
  IF convertedName \in DOMAIN table /\ Len(table[convertedName]) > 0
    THEN table[convertedName]
    ELSE convertedName

PrefixesOf(p) ==
  CASE p = "AWS" -> AwsPrefixes
    [] p = "Azure" -> AzurePrefixes
    [] p = "MongoAtlas" -> MongoPrefixes

AliasesOf(p) == IF p = "AWS" THEN aliases ELSE NoAliases

\* return `${this.provider}/${convertedName}`
convertServiceName(p, name) ==
  <<p, "/">> \o ApplyAliases(AliasesOf(p), StripPrefixes(name, PrefixesOf(p), 1, name))

Providers == {"AWS", "Azure", "MongoAtlas"}

(***************************************************************************)
(* One call of convertServiceName on a raw name                            *)
(***************************************************************************)
NameBodies ==
  DOMAIN aliases
    \cup {<<>>, <<"CloudWatch">>, Words(<<"App", "Service">>), Words(<<"Data", "Transfer">>)}
LeadingTokens == {<<>>, <<"Amazon">>, <<"AWS">>, <<"Azure">>, <<"Atlas">>}
Paddings == {<<>>, <<Space>>, <<Space, Space>>}
ServiceNames ==
  {lead \o first \o pad \o body \o trail :
     lead \in {<<>>, <<Space>>}, first \in LeadingTokens, pad \in Paddings,
     body \in NameBodies, trail \in {<<>>, <<Space>>}}

NameInit ==
  /\ provider \in Providers
  /\ RetryIdle /\ TransformIdle /\ FilterIdle /\ CsvIdle /\ PageIdle
  /\ serviceName \in ServiceNames
  /\ converted = <<>>
  /\ npc = "call"

ConvertServiceName ==
  /\ npc = "call"
  /\ converted' = convertServiceName(provider, serviceName)
  /\ npc' = "returned"
  /\ UNCHANGED <<serviceName, provider, retryVars, transformVars, filterVars, csvVars, pageVars>>

NameNext == ConvertServiceName

SpecNames == NameInit /\ [][NameNext]_vars

\* the name with the first matching configured prefix removed and trimmed
C10_Matching == {i \in 1..Len(PrefixesOf(provider)) : StartsWith(serviceName, PrefixesOf(provider)[i])}
C10_First == CHOOSE i \in C10_Matching : \A j \in C10_Matching : i <= j
C10_Stripped ==
  IF C10_Matching = {} THEN serviceName
  ELSE Trim(Slice(serviceName, Len(PrefixesOf(provider)[C10_First])))

\* C10: a raw name that starts with a configured prefix of its provider and whose
\* remainder, trimmed, is a key of the provider's alias table is returned as
\* "<provider>/<alias>"; every result starts with "<provider>/"; a name with no
\* alias comes back as "<provider>/<name with the prefix stripped>".
C10_ConvertServiceName ==
  npc = "returned" =>
    /\ StartsWith(converted, <<provider, "/">>)
    /\ \A i \in C10_Matching :
         LET rest == Trim(Slice(serviceName, Len(PrefixesOf(provider)[i])))
         IN  rest \in DOMAIN AliasesOf(provider)
               => converted = <<provider, "/">> \o AliasesOf(provider)[rest]
    /\ C10_Stripped \notin DOMAIN AliasesOf(provider)
         => converted = <<provider, "/">> \o C10_Stripped

\* "Amazon Simple Storage Service" became "AWS/S3 (Simple Storage Service)"
C10_Witness ==
  /\ npc = "returned"
  /\ provider = "AWS"
  /\ serviceName = Words(<<"Amazon", "Simple", "Storage", "Service">>)
  /\ converted = <<"AWS", "/">> \o Words(<<"S3", "(Simple", "Storage", "Service)">>)

(***************************************************************************)
(* fetchCosts of AWS and Azure: the filter built from the tags             *)
(***************************************************************************)
\* a node of a filter expression; the fields a node does not have are empty
Node(kind, key, operator, values, children) ==
  [node |-> kind, key |-> key, operator |-> operator, values |-> values, children |-> children]

NoFilter == Node("undefined", "", "", <<>>, <<>>)

\* { Dimensions: { Key: 'RECORD_TYPE', Values: ['Usage'] } }
AwsBaseFilter == Node("Dimensions", "RECORD_TYPE", "", <<"Usage">>, <<>>)

\* { Tags: { Key: tag.key, Values: [tag.value] } }
AwsTagClause(tag) == Node("Tags", tag.key, "", <<tag.value>>, <<>>)

\* { tags: { name: tag.key, operator: 'In', values: [tag.value] } }
AzureTagClause(tag) == Node("tags", tag.key, "In", <<tag.value>>, <<>>)

\* the same list under an And node
AwsAndOfTags(tagList) == Node("And", "", "", <<>>, tagList)
\* tagsExpression = { Or: tagList }
AwsOr(tagList) == Node("Or", "", "", <<>>, tagList)

\* filter = { or: tagList }
AzureOr(tagList) == Node("or", "", "", <<>>, tagList)

\* filterExpression = { And: [filterExpression, tagsExpression] }
AwsAnd(left, right) == Node("And", "", "", <<>>, <<left, right>>)

AwsTagsExpression(ts) ==
  IF Len(ts) = 1 THEN AwsTagClause(ts[1])
  ELSE AwsOr([i \in 1..Len(ts) |-> AwsTagClause(ts[i])])

AwsFilterExpression(ts) ==
  IF Len(ts) > 0 THEN AwsAnd(AwsBaseFilter, AwsTagsExpression(ts)) ELSE AwsBaseFilter

AzureFilter(ts) ==
  IF Len(ts) > 0
    THEN IF Len(ts) = 1 THEN AzureTagClause(ts[1])
         ELSE AzureOr([i \in 1..Len(ts) |-> AzureTagClause(ts[i])])
    ELSE NoFilter

\* parseTags(query.tags): the tags of the query, the last one without a value
TagPool ==
  { [key |-> "env", value |-> "prod"], [key |-> "env", value |-> "dev"],
    [key |-> "team", value |-> "billing"], [key |-> "owner", value |-> "undefined"] }

RECURSIVE SeqsUpTo(_, _)
SeqsUpTo(S, n) ==
  IF n = 0 THEN {<<>>}
  ELSE LET shorter == SeqsUpTo(S, n - 1)
       IN  shorter \cup {Append(q, x) : q \in shorter, x \in S}

FilterInit ==
  /\ provider \in {"AWS", "Azure"}
  /\ RetryIdle /\ TransformIdle /\ NameIdle /\ CsvIdle /\ PageIdle
  /\ tags \in SeqsUpTo(TagPool, MaxTags)
  /\ filter = NoFilter
  /\ fpc = "build"

BuildFilter ==
  /\ fpc = "build"
  /\ filter' = IF provider = "AWS" THEN AwsFilterExpression(tags) ELSE AzureFilter(tags)
  /\ fpc' = "built"
  /\ UNCHANGED <<tags, provider, retryVars, transformVars, nameVars, csvVars, pageVars>>

FilterNext == BuildFilter

SpecFilter == FilterInit /\ [][FilterNext]_vars

\* the equality clause of one tag, as the provider's API spells it
C8_Clause(tag) ==
  IF provider = "AWS"
    THEN [node |-> "Tags", key |-> tag.key, operator |-> "", values |-> <<tag.value>>,
          children |-> <<>>]
    ELSE [node |-> "tags", key |-> tag.key, operator |-> "In", values |-> <<tag.value>>,
          children |-> <<>>]

\* the tag part is right: one clause for one tag, an OR of the clauses in input
\* order for two or more
C8_TagPart(e) ==
  IF Len(tags) = 1 THEN e = C8_Clause(tags[1])
  ELSE /\ e.node = (IF provider = "AWS" THEN "Or" ELSE "or")
       /\ Len(e.children) = Len(tags)
       /\ \A i \in 1..Len(tags) : e.children[i] = C8_Clause(tags[i])

\* C8: with two or more tags the tag part of the filter is one OR node whose
\* children are one equality clause per tag, in input order, never an AND; with
\* one tag it is that clause; with none Azure sends no filter and AWS only the
\* RECORD_TYPE=Usage filter; AWS with at least one tag sends AND[base, tag part].
C8_TagFilter ==
  fpc = "built" =>
    IF provider = "Azure"
      THEN IF Len(tags) = 0 THEN filter.node = "undefined" ELSE C8_TagPart(filter)
      ELSE IF Len(tags) = 0
             THEN filter = [node |-> "Dimensions", key |-> "RECORD_TYPE", operator |-> "",
                            values |-> <<"Usage">>, children |-> <<>>]
             ELSE /\ filter.node = "And"
                  /\ Len(filter.children) = 2
                  /\ filter.children[1].node = "Dimensions"
                  /\ filter.children[1].key = "RECORD_TYPE"
                  /\ filter.children[1].values = <<"Usage">>
                  /\ C8_TagPart(filter.children[2])

\* an AWS query with three tags got AND[base, OR[three clauses]]
C8_Witness ==
  /\ fpc = "built"
  /\ provider = "AWS"
  /\ Len(tags) = 3
  /\ filter.node = "And"
  /\ filter.children[2].node = "Or"
  /\ Len(filter.children[2].children) = 3

(***************************************************************************)
(* JavaScript values of the raw rows                                       *)
(*   kind "number"   the number n                                          *)
(*   kind "numtext"  a string that spells the number n ("10.0")            *)
(*   kind "text"     the string s                                          *)
(*   kind "ymd"      the string "YYYY-MM-DD"           (n the year)        *)
(*   kind "ymdT"     the string "YYYY-MM-DDT00:00:00"                      *)
(*   kind "ym"       the string "YYYY-MM"                                  *)
(*   kind "mdy"      the string "MM/DD/YYYY"                               *)
(*   kind "null", "undefined"                                              *)
(***************************************************************************)
Val(kind, s, n, m, d) == [kind |-> kind, s |-> s, n |-> n, m |-> m, d |-> d]
Number(n) == Val("number", <<>>, n, 0, 0)
NumText(n) == Val("numtext", <<>>, n, 0, 0)
Text(s) == Val("text", s, 0, 0, 0)
Ymd(y, m, d) == Val("ymd", <<>>, y, m, d)
YmdT(y, m, d) == Val("ymdT", <<>>, y, m, d)
Ym(y, m) == Val("ym", <<>>, y, m, 0)
Mdy(m, d, y) == Val("mdy", <<>>, y, m, d)
Null == Val("null", <<>>, 0, 0, 0)
Undefined == Val("undefined", <<>>, 0, 0, 0)

\* a JavaScript number that is the result of arithmetic: NaN or the value v
Num(v) == [nan |-> FALSE, v |-> v]
NaN == [nan |-> TRUE, v |-> 0]

\* parseFloat(x)
parseFloat(x) == IF x.kind \in {"number", "numtext"} THEN Num(x.n) ELSE NaN

\* a + b
Plus(a, b) == IF a.nan \/ b.nan THEN NaN ELSE Num(a.v + b.v)

\* x || 0 on a number: NaN and 0 are falsy
OrZero(x) == IF x.nan \/ x.v = 0 THEN Num(0) ELSE x

\* x || fallback on a string or undefined
OrElse(x, fallback) ==
  IF x.kind \in {"undefined", "null"} \/ (x.kind = "text" /\ Len(x.s) = 0) THEN fallback ELSE x

\* query.granularity.toUpperCase()
toUpperCase(g) ==
  CASE g = "daily" -> "DAILY"
    [] g = "monthly" -> "MONTHLY"
    [] OTHER -> g

(***************************************************************************)
(* moment: parsing, comparing and formatting dates (year 2024)             *)
(***************************************************************************)
DaysInMonth == <<31, 29, 31, 30, 31, 30, 31, 31, 30, 31, 30, 31>>

RECURSIVE DaysBefore(_)
DaysBefore(m) == IF m <= 1 THEN 0 ELSE DaysInMonth[m - 1] + DaysBefore(m - 1)

\* the instant of local midnight of a day
MidnightOf(y, m, d) == ((y - 2024) * 366 + DaysBefore(m) + (d - 1)) * TicksPerDay

Invalid == [valid |-> FALSE, t |-> 0, y |-> 0, m |-> 0, d |-> 0]
At(y, m, d) == [valid |-> TRUE, t |-> MidnightOf(y, m, d), y |-> y, m |-> m, d |-> d]

ValidDay(m, d) == m \in 1..12 /\ d >= 1 /\ d <= DaysInMonth[m]

\* moment(x) of a string or null
moment(x) ==
  CASE x.kind \in {"ymd", "ymdT"} -> IF ValidDay(x.m, x.d) THEN At(x.n, x.m, x.d) ELSE Invalid
    [] x.kind = "ym" -> IF x.m \in 1..12 THEN At(x.n, x.m, 1) ELSE Invalid
    [] OTHER -> Invalid

\* moment(x, 'MM/DD/YYYY', true)
momentStrict(x) ==
  IF x.kind = "mdy" /\ ValidDay(x.m, x.d) THEN At(x.n, x.m, x.d) ELSE Invalid

\* moment(parseInt(query.startTime, 10))
momentOfMillis(t) == [valid |-> TRUE, t |-> t, y |-> 0, m |-> 0, d |-> 0]

\* a.isBefore(b): false when either is invalid
isBefore(a, b) == a.valid /\ b.valid /\ a.t < b.t

\* parsedDate.format('YYYY-MM') and parsedDate.format('YYYY-MM-DD')
formatYM(mt) == Ym(mt.y, mt.m)
formatYMD(mt) == Ymd(mt.y, mt.m, mt.d)

\* s.substring(0, 7) of a date string
substring07(x) == IF x.kind \in {"ymd", "ymdT", "ym"} THEN Ym(x.n, x.m) ELSE x

\* dateNumber.toString().length
RECURSIVE Digits(_)
Digits(n) == IF n < 10 THEN 1 ELSE 1 + Digits(n \div 10)

\* AzureClient.formatDate
formatDate(dateNumber) ==
  IF Digits(dateNumber.n) # 8 THEN Null
  ELSE Ymd(dateNumber.n \div 10000, (dateNumber.n \div 100) % 100, dateNumber.n % 100)

(***************************************************************************)
(* The sub-account configuration and the injected category mapping         *)
(***************************************************************************)
\* subAccountConfig.getString('name')
accountName == <<"prod">>

\* subAccountConfig.getOptionalStringArray('tags')
configTags == << <<"team", ":", Space, "core">> >>

RECURSIVE IndexOf(_, _, _)
IndexOf(s, tok, i) ==
  IF i > Len(s) THEN 0 ELSE IF s[i] = tok THEN i ELSE IndexOf(s, tok, i + 1)

\* const [k, v] = tag.split(':')
SplitColon(tag) ==
  LET c == IndexOf(tag, ":", 1)
      rest == SubSeq(tag, c + 1, Len(tag))
      c2 == IndexOf(rest, ":", 1)
  IN  << SubSeq(tag, 1, c - 1), IF c2 = 0 THEN rest ELSE SubSeq(rest, 1, c2 - 1) >>

\* tags?.forEach(tag => tagKeyValues[k.trim()] = v.trim())
RECURSIVE TagKeyValues(_, _)
TagKeyValues(ts, kv) ==
  IF Len(ts) = 0 THEN kv
  ELSE LET p == SplitColon(ts[1])
       IN  TagKeyValues(Tail(ts), [x \in DOMAIN kv \cup {Trim(p[1])} |->
                                     IF x = Trim(p[1]) THEN Trim(p[2]) ELSE kv[x]])

tagKeyValues == TagKeyValues(configTags, <<>>)

SkuM10 == <<"ATLAS_AWS_INSTANCE_M10">>
SkuM20 == <<"ATLAS_AWS_INSTANCE_M20">>
SkuTransfer == <<"ATLAS_AWS_DATA_TRANSFER">>
ServiceEC2 == Words(<<"Amazon", "Elastic", "Compute", "Cloud", "-", "Compute">>)
ServiceS3 == Words(<<"Amazon", "Simple", "Storage", "Service">>)
ServiceApp == Words(<<"Azure", "App", "Service">>)
ServiceStorage == <<"Storage">>

\* the injected lookup serviceName -> category
categoryMappings ==
  (SkuM10 :> <<"Database">>) @@ (SkuM20 :> <<"Database">>)
  @@ (ServiceEC2 :> <<"Compute">>) @@ (ServiceS3 :> <<"Storage">>)
  @@ (ServiceApp :> <<"Compute">>)

\* getCategoryByServiceName: the mapped category, or the default one
getCategoryByServiceName(name, mappings) ==
  IF name \in DOMAIN mappings THEN mappings[name] ELSE <<"Uncategorized">>

(***************************************************************************)
(* The reducers of transformCostsData                                      *)
(***************************************************************************)
Put(f, k, v) == [x \in DOMAIN f \cup {k} |-> IF x = k THEN v ELSE f[x]]

\* what one pass of a reducer body does: the Report it needs, and the
\* assignment to reports[period] it makes when `assigns`
Pass(keyName, name, extra, assigns, period, amount) ==
  [keyName |-> keyName, serviceName |-> name, extra |-> extra,
   assigns |-> assigns, period |-> period, amount |-> amount]

\* accumulator[keyName] = { id: keyName, name, service, category, provider, reports: {}, ... }
NewReport(p, pass) ==
  [id |-> pass.keyName,
   name |-> <<p, "/">> \o accountName,
   service |-> convertServiceName(p, pass.serviceName),
   category |-> getCategoryByServiceName(pass.serviceName, categoryMappings),
   provider |-> p,
   reports |-> <<>>,
   extra |-> pass.extra]

\* reports[period] = amount
Overwrite(reports, period, amount) == amount

\* the assignment without the read of the old value
MongoOverwrite(reports, period, amount) == amount
\* reports[period] = (reports[period] || 0) + amount
MongoAccumulate(reports, period, amount) ==
  Plus(OrZero(IF period \in DOMAIN reports THEN reports[period] ELSE NaN), amount)

ApplyPass(p, acc, pass) ==
  LET acc1 == IF pass.keyName \notin DOMAIN acc
                THEN Put(acc, pass.keyName, NewReport(p, pass))
                ELSE acc
      old == acc1[pass.keyName].reports
      new == IF p = "MongoAtlas"
               THEN MongoAccumulate(old, pass.period, pass.amount)
               ELSE Overwrite(old, pass.period, pass.amount)
  IN  IF pass.assigns
        THEN [acc1 EXCEPT ![pass.keyName].reports = Put(old, pass.period, new)]
        ELSE acc1

RECURSIVE ApplyPasses(_, _, _)
ApplyPasses(p, acc, passes) ==
  IF Len(passes) = 0 THEN acc
  ELSE ApplyPasses(p, ApplyPass(p, acc, passes[1]), Tail(passes))

\* ---- AwsClient.transformCostsData
AwsPeriod(q, row) ==
  IF row.Start.kind = "undefined" THEN Text(<<"unknown">>)
  ELSE IF toUpperCase(q.granularity) = "MONTHLY" THEN substring07(row.Start)
  ELSE row.Start

\* parseFloat(groupMetrics.UnblendedCost.Amount ?? '0.0')
AwsAmount(metrics) ==
  parseFloat(IF metrics.Amount.kind \in {"undefined", "null"} THEN NumText(0) ELSE metrics.Amount)

AwsPass(q, row, group) ==
  LET name == IF group.Keys.defined THEN group.Keys.v ELSE <<>>
  IN  Pass(accountName \o <<"_">> \o name, name, tagKeyValues,
           group.Metrics.defined, AwsPeriod(q, row), AwsAmount(group.Metrics))

AwsPasses(q, row) ==
  IF row.Groups.defined
    THEN [i \in 1..Len(row.Groups.list) |-> AwsPass(q, row, row.Groups.list[i])]
    ELSE <<>>

\* ---- AzureClient.transformCostsData
\* !moment(date).isBefore(moment(parseInt(query.startTime, 10)))
NotBeforeStart(q, date) == ~ isBefore(moment(date), momentOfMillis(q.startTime))

AzureDate(q, row) ==
  IF toUpperCase(q.granularity) = "DAILY" THEN formatDate(row.date) ELSE row.date

AzurePass(q, row) ==
  LET date == AzureDate(q, row)
  IN  Pass(accountName \o <<"->">> \o row.serviceName, row.serviceName, tagKeyValues,
           NotBeforeStart(q, date),
           IF toUpperCase(q.granularity) = "MONTHLY" THEN substring07(date) ELSE date,
           parseFloat(row.cost))

AzurePasses(q, row) == <<AzurePass(q, row)>>

\* ---- MongoAtlasClient.transformCostsData
\* header.forEach((columnName, index) => rowData[columnName] = columns[index])
RowData(h, columns, columnName) ==
  LET at == {i \in 1..Len(h) : h[i] = columnName}
      last == CHOOSE i \in at : \A j \in at : j <= i
  IN  IF at = {} \/ last > Len(columns) THEN Undefined ELSE columns[last]

\* parseFloat(rowData.Amount) || 0
MongoAmount(h, columns) == OrZero(parseFloat(RowData(h, columns, "Amount")))

MongoBillingPeriod(q, parsedDate) ==
  IF toUpperCase(q.granularity) = "MONTHLY" THEN formatYM(parsedDate) ELSE formatYMD(parsedDate)

MongoPass(q, h, columns) ==
  LET parsedDate == momentStrict(RowData(h, columns, "Date"))
      billingPeriod == MongoBillingPeriod(q, parsedDate)
      name == RowData(h, columns, "SKU").s
      cluster == OrElse(RowData(h, columns, "Cluster"), Text(<<"Unknown">>)).s
      project == OrElse(RowData(h, columns, "Project"), Text(<<"Unknown">>)).s
      keyName == accountName \o <<"->">> \o getCategoryByServiceName(name, categoryMappings)
                   \o <<"->">> \o project \o <<"->">> \o cluster
      extra == [x \in DOMAIN tagKeyValues \cup {<<"project">>, <<"cluster">>} |->
                  IF x \in DOMAIN tagKeyValues THEN tagKeyValues[x]
                  ELSE IF x = <<"project">> THEN project ELSE cluster]
  IN  Pass(keyName, name, extra, NotBeforeStart(q, billingPeriod), billingPeriod,
           MongoAmount(h, columns))

\* if (!parsedDate.isValid()) return accumulator
MongoPasses(q, h, columns) ==
  IF ~ momentStrict(RowData(h, columns, "Date")).valid THEN <<>>
  ELSE <<MongoPass(q, h, columns)>>

(***************************************************************************)
(* The raw rows a provider can answer with                                 *)
(***************************************************************************)
AwsGroup(keysDefined, name, metricsDefined, amount) ==
  [Keys |-> [defined |-> keysDefined, v |-> name],
   Metrics |-> [defined |-> metricsDefined, Amount |-> amount]]

AwsGroups ==
  { AwsGroup(TRUE, ServiceEC2, TRUE, NumText(10)),
    AwsGroup(TRUE, ServiceS3, TRUE, NumText(10)),
    AwsGroup(TRUE, ServiceEC2, TRUE, Text(<<"abc">>)),
    AwsGroup(TRUE, ServiceEC2, TRUE, Undefined),
    AwsGroup(TRUE, ServiceEC2, FALSE, Undefined),
    AwsGroup(FALSE, <<>>, TRUE, NumText(10)) }

AwsGroupLists ==
  {[defined |-> FALSE, list |-> <<>>]}
    \cup {[defined |-> TRUE, list |-> <<g>>] : g \in AwsGroups}
    \cup {[defined |-> TRUE,
           list |-> <<AwsGroup(TRUE, ServiceEC2, TRUE, NumText(10)),
                      AwsGroup(TRUE, ServiceS3, TRUE, NumText(5))>>]}

AwsRows ==
  [Start : {Ymd(2024, 3, 31), Ymd(2024, 4, 5)}, Groups : AwsGroupLists]
    \cup {[Start |-> Undefined,
           Groups |-> [defined |-> TRUE,
                       list |-> <<AwsGroup(TRUE, ServiceEC2, TRUE, NumText(10))>>]]}

\* [cost, UsageDate or BillingMonth, ServiceName]
AzureRows(q) ==
  [cost : {Number(10), Text(<<"abc">>)},
   date : IF toUpperCase(q.granularity) = "DAILY"
            THEN {Number(20240331), Number(20240405), Number(20240407), Number(2024047)}
            ELSE {YmdT(2024, 3, 1), YmdT(2024, 4, 1), YmdT(2024, 5, 1)},
   serviceName : {ServiceApp, ServiceStorage}]

Headers ==
  { <<"Date", "Project", "SKU", "Cluster", "Amount">>,
    <<"Date", "SKU", "Project", "Amount", "Cluster">> }

MongoRecords ==
  { [Date |-> date, SKU |-> Text(item[1]), Amount |-> NumText(item[2]),
     Project |-> Text(<<"shop">>), Cluster |-> Text(<<"c1">>)] :
      date \in {Mdy(3, 31, 2024), Mdy(4, 5, 2024), Mdy(4, 28, 2024)},
      item \in {<<SkuM10, 10>>, <<SkuM10, 5>>, <<SkuM20, 10>>, <<SkuTransfer, 5>>} }
    \cup { [Date |-> Text(<<"Date">>), SKU |-> Text(<<"SKU">>), Amount |-> Text(<<"Amount">>),
            Project |-> Text(<<"Project">>), Cluster |-> Text(<<"Cluster">>)],
           [Date |-> Mdy(4, 28, 2024), SKU |-> Text(SkuM10), Amount |-> Text(<<"abc">>),
            Project |-> Text(<<"shop">>), Cluster |-> Text(<<"c1">>)],
           [Date |-> Mdy(4, 28, 2024), SKU |-> Text(SkuM10), Amount |-> NumText(10),
            Project |-> Text(<<>>), Cluster |-> Text(<<"c1">>)] }

\* the line of a record under a header, split on ','; and a line that lacks its last column
Line(h, rd) == [i \in 1..Len(h) |-> rd[h[i]]]
MongoLines(h) ==
  {Line(h, rd) : rd \in MongoRecords}
    \cup {SubSeq(Line(h, [Date |-> Mdy(4, 5, 2024), SKU |-> Text(SkuM10), Amount |-> NumText(10),
                         Project |-> Text(<<"shop">>), Cluster |-> Text(<<"c1">>)]),
                 1, Len(h) - 1)}

Granularities == {"daily", "MONTHLY"}
StartTimes ==
  {MidnightOf(2024, 4, 1), MidnightOf(2024, 4, 5), MidnightOf(2024, 4, 5) + 1}
Queries == [granularity : Granularities, startTime : StartTimes]

(***************************************************************************)
(* One call of transformCostsData: reduce over the rows, then return       *)
(***************************************************************************)
\* the assignments of the passes of row number n
Assignments(n, row, passes) ==
  LET made == SelectSeq(passes, LAMBDA ps : ps.assigns)
  IN  [i \in 1..Len(made) |->
         [row |-> n, keyName |-> made[i].keyName, period |-> made[i].period,
          amount |-> made[i].amount]]

TransformInit ==
  /\ provider \in Providers
  /\ RetryIdle /\ FilterIdle /\ NameIdle /\ CsvIdle /\ PageIdle
  /\ query \in Queries
  /\ header \in (IF provider = "MongoAtlas" THEN Headers ELSE {<<>>})
  /\ costResponse = <<>>
  /\ accumulator = <<>>
  /\ written = <<>>
  /\ tpc = "reduce"

Reduce(row, passes) ==
  /\ tpc = "reduce"
  /\ Len(costResponse) < MaxRows
  /\ costResponse' = Append(costResponse, row)
  /\ accumulator' = ApplyPasses(provider, accumulator, passes)
  /\ written' = written \o Assignments(Len(costResponse) + 1, row, passes)
  /\ UNCHANGED <<tpc, query, header, provider, retryVars, filterVars, nameVars, csvVars, pageVars>>

AwsReduceRow ==
  /\ provider = "AWS"
  /\ \E row \in AwsRows : Reduce(row, AwsPasses(query, row))

AzureReduceRow ==
  /\ provider = "Azure"
  /\ \E row \in AzureRows(query) : Reduce(row, AzurePasses(query, row))

MongoReduceRow ==
  /\ provider = "MongoAtlas"
  /\ \E line \in MongoLines(header) : Reduce(line, MongoPasses(query, header, line))

\* return Object.values(transformedData)
ReturnReports ==
  /\ tpc = "reduce"
  /\ tpc' = "done"
  /\ UNCHANGED <<query, header, costResponse, accumulator, written, provider,
                 retryVars, filterVars, nameVars, csvVars, pageVars>>

TransformNext ==
  \/ AwsReduceRow
  \/ AzureReduceRow
  \/ MongoReduceRow
  \/ ReturnReports

SpecTransform == TransformInit /\ [][TransformNext]_vars

(***************************************************************************)
(* Properties of transformCostsData                                        *)
(***************************************************************************)
Rows == 1..Len(costResponse)
StartMoment == momentOfMillis(query.startTime)

\* the date of raw row n, as a moment (invalid when the row has no usable date)
RowMoment(n) ==
  CASE provider = "AWS" -> moment(costResponse[n].Start)
    [] provider = "Azure" ->
         IF costResponse[n].date.kind = "number"
           THEN IF Digits(costResponse[n].date.n) = 8
                  THEN moment(Ymd(costResponse[n].date.n \div 10000,
                                  (costResponse[n].date.n \div 100) % 100,
                                  costResponse[n].date.n % 100))
                  ELSE Invalid
           ELSE moment(costResponse[n].date)
    [] provider = "MongoAtlas" -> momentStrict(RowData(header, costResponse[n], "Date"))

\* the bucket of the period of row n
RowBucket(n) ==
  IF toUpperCase(query.granularity) = "MONTHLY"
    THEN Ym(RowMoment(n).y, RowMoment(n).m)
    ELSE Ymd(RowMoment(n).y, RowMoment(n).m, RowMoment(n).d)

\* the passes row n made through the reducer body
PassesOf(n) ==
  CASE provider = "AWS" -> AwsPasses(query, costResponse[n])
    [] provider = "Azure" -> AzurePasses(query, costResponse[n])
    [] provider = "MongoAtlas" -> MongoPasses(query, header, costResponse[n])

\* C3: in every provider's transformCostsData a raw row dated strictly before
\* query.startTime adds nothing to any reports map: no assignment to a bucket
\* comes from such a row.
C3_RowsBeforeStartAddNothing ==
  \A i \in 1..Len(written) : ~ isBefore(RowMoment(written[i].row), StartMoment)

\* row n carries an amount for each of its groups
C4_HasAmount(n) ==
  provider = "AWS" =>
    /\ costResponse[n].Groups.defined
    /\ Len(costResponse[n].Groups.list) > 0
    /\ \A j \in 1..Len(costResponse[n].Groups.list) : costResponse[n].Groups.list[j].Metrics.defined

\* C4: for DAILY and MONTHLY granularity, every raw row with a valid date equal to
\* or later than query.startTime is included: its amount is assigned to the
\* bucket of its period in the Report of its group.
C4_RowsFromStartIncluded ==
  \A n \in Rows :
    (RowMoment(n).valid /\ ~ isBefore(RowMoment(n), StartMoment) /\ C4_HasAmount(n))
      => \A j \in 1..Len(PassesOf(n)) :
           /\ \E i \in 1..Len(written) :
                /\ written[i].row = n
                /\ written[i].keyName = PassesOf(n)[j].keyName
                /\ written[i].period = RowBucket(n)
           /\ RowBucket(n) \in DOMAIN accumulator[PassesOf(n)[j].keyName].reports

\* C5: in AzureClient.transformCostsData with DAILY granularity a row whose
\* numeric date does not have exactly 8 digits adds no entry to any reports map
\* (no bucket under a null key), while 20240407 is bucketed under "2024-04-07".
C5_MalformedAzureDateSkipped ==
  (provider = "Azure" /\ toUpperCase(query.granularity) = "DAILY") =>
    /\ \A i \in 1..Len(written) : Digits(costResponse[written[i].row].date.n) = 8
    /\ \A k \in DOMAIN accumulator : Null \notin DOMAIN accumulator[k].reports
    /\ \A n \in Rows :
         (costResponse[n].date = Number(20240407) /\ ~ isBefore(RowMoment(n), StartMoment))
           => \E i \in 1..Len(written) :
                written[i].row = n /\ written[i].period = Ymd(2024, 4, 7)

\* the group of a pass: service and dimension tuple (the account is the same
\* for every row of one call)
C6_Group(pass) ==
  IF provider = "MongoAtlas"
    THEN <<pass.serviceName, getCategoryByServiceName(pass.serviceName, categoryMappings),
           pass.extra[<<"project">>], pass.extra[<<"cluster">>]>>
    ELSE <<pass.serviceName>>

\* C6: within one call two raw rows are merged into the same Report if and only
\* if they agree on account, service and dimension tuple; no two Reports share
\* an id; rows of distinct services never share a Report.
C6_OneReportPerGroup ==
  /\ \A k1, k2 \in DOMAIN accumulator :
       k1 # k2 => accumulator[k1].id # accumulator[k2].id
  /\ \A n1, n2 \in Rows :
       \A j1 \in 1..Len(PassesOf(n1)), j2 \in 1..Len(PassesOf(n2)) :
         LET p1 == PassesOf(n1)[j1]
             p2 == PassesOf(n2)[j2]
         IN  /\ (p1.keyName = p2.keyName) <=> (C6_Group(p1) = C6_Group(p2))
             /\ p1.serviceName # p2.serviceName => p1.keyName # p2.keyName

\* what the claim reads of each row: whether its date is valid, whether it is
\* included (its billing period is not before startTime), its bucket, its group
\* and the amount of its Amount column (zero when that is no number)
C7_Facts ==
  [n \in Rows |->
     LET mt == momentStrict(RowData(header, costResponse[n], "Date"))
         bucket == IF toUpperCase(query.granularity) = "MONTHLY"
                     THEN Ym(mt.y, mt.m) ELSE Ymd(mt.y, mt.m, mt.d)
         a == RowData(header, costResponse[n], "Amount")
     IN  IF mt.valid
           THEN [valid |-> TRUE,
                 included |-> ~ isBefore(moment(bucket), StartMoment),
                 bucket |-> bucket,
                 group |-> PassesOf(n)[1].keyName,
                 amount |-> IF a.kind = "numtext" THEN a.n ELSE 0]
           ELSE [valid |-> FALSE, included |-> FALSE, bucket |-> Null, group |-> <<>>,
                 amount |-> 0]]

RECURSIVE C7_Sum(_, _)
C7_Sum(facts, S) ==
  IF S = {} THEN 0
  ELSE LET n == CHOOSE x \in S : TRUE
       IN  facts[n].amount + C7_Sum(facts, S \ {n})

\* the included rows of group k whose date falls in bucket b
C7_RowsIn(facts, k, b) ==
  {n \in DOMAIN facts : facts[n].included /\ facts[n].bucket = b /\ facts[n].group = k}

\* C7: in MongoAtlasClient.transformCostsData, for every group and every bucket,
\* the final reports[bucket] is the sum of the amounts of all included rows of
\* the group dated in the bucket, whatever the order of the rows; a bucket no
\* included row falls in does not exist.
C7_BucketIsSumOfRows ==
  (provider = "MongoAtlas" /\ tpc = "done") =>
    LET facts == C7_Facts
    IN  /\ \A n \in Rows : facts[n].valid => facts[n].group \in DOMAIN accumulator
        /\ \A k \in DOMAIN accumulator :
             /\ DOMAIN accumulator[k].reports =
                  {facts[n].bucket : n \in {x \in Rows : facts[x].included /\ facts[x].group = k}}
             /\ \A b \in DOMAIN accumulator[k].reports :
                  accumulator[k].reports[b] =
                    [nan |-> FALSE, v |-> C7_Sum(facts, C7_RowsIn(facts, k, b))]

\* MONTHLY: rows of one group dated 04/05/2024 and 04/28/2024 with amounts 10 and 5
\* gave "2024-04" = 15
C7_Witness ==
  /\ provider = "MongoAtlas"
  /\ tpc = "done"
  /\ toUpperCase(query.granularity) = "MONTHLY"
  /\ Len(costResponse) = 2
  /\ RowData(header, costResponse[1], "Date") = Mdy(4, 5, 2024)
  /\ RowData(header, costResponse[1], "Amount") = NumText(10)
  /\ RowData(header, costResponse[2], "Date") = Mdy(4, 28, 2024)
  /\ RowData(header, costResponse[2], "Amount") = NumText(5)
  /\ \E k \in DOMAIN accumulator :
       /\ DOMAIN accumulator[k].reports = {Ym(2024, 4)}
       /\ accumulator[k].reports[Ym(2024, 4)] = [nan |-> FALSE, v |-> 15]

\* C9: in every provider's transformCostsData a row whose cost field does not
\* parse as a number contributes exactly zero: no bucket value is ever NaN.
C9_NoBucketIsNaN ==
  /\ \A k \in DOMAIN accumulator :
       \A b \in DOMAIN accumulator[k].reports : ~ accumulator[k].reports[b].nan
  /\ \A i \in 1..Len(written) : ~ written[i].amount.nan

(***************************************************************************)
(* MongoAtlasClient.fetchCostsFromCloud                                    *)
(* A text is the sequence of its lines; a line is a token sequence.        *)
(***************************************************************************)
InvoiceIds == {"inv-a", "inv-b", "inv-c"}

CsvRow(id, n) == <<"04/05/2024", ",", id, ",", n>>

\* the CSV bodies an invoice can be answered with: a full one (preamble, header
\* line, rows, an empty line, a Credit row, a blank line), a short one, and one
\* without the "Organization ID," line
CsvBodies(id) ==
  { << <<"Invoice", Space, id>>,
       <<Space, "Organization ID,", "acme">>,
       CsvRow(id, "r1"),
       <<>>,
       <<"04/06/2024", ",", id, ",", "Credit">>,
       CsvRow(id, "r2"),
       <<Space>> >>,
    << <<"Organization ID,", "acme">>, CsvRow(id, "r1") >>,
    << CsvRow(id, "r1") >> }

\* trimmedLine.includes('Credit')
Includes(line, tok) == \E i \in 1..Len(line) : line[i] = tok

\* lines.filter(...) with its flag foundOrganizationIdLine
RECURSIVE FilterLines(_, _)
FilterLines(lines, foundOrganizationIdLine) ==
  IF Len(lines) = 0 THEN <<>>
  ELSE LET trimmedLine == Trim(lines[1])
       IN  IF StartsWith(trimmedLine, <<"Organization ID,">>)
             THEN FilterLines(Tail(lines), TRUE)
           ELSE IF ~ foundOrganizationIdLine
             THEN FilterLines(Tail(lines), FALSE)
           ELSE IF trimmedLine # <<>> /\ ~ Includes(trimmedLine, "Credit")
             THEN <<lines[1]>> \o FilterLines(Tail(lines), foundOrganizationIdLine)
           ELSE FilterLines(Tail(lines), foundOrganizationIdLine)

\* lines.join('\n'): the text of no lines is the empty string, one empty line
JoinLines(lines) == IF Len(lines) = 0 THEN << <<>> >> ELSE lines

\* texts.join('\n')
RECURSIVE JoinTexts(_)
JoinTexts(texts) ==
  IF Len(texts) = 0 THEN << <<>> >>
  ELSE IF Len(texts) = 1 THEN texts[1]
  ELSE texts[1] \o JoinTexts(Tail(texts))

Pending == [state |-> "pending", data |-> <<>>, value |-> <<>>]

\* the values in the order the downloads completed
ByCompletion(sl, order) == [j \in 1..Len(order) |-> sl[order[j]].value]
\* await Promise.all(...): the values of the promises, by position
AllInvoicesData(sl, order) == [i \in 1..Len(sl) |-> sl[i].value]

\* the lists of at most n distinct elements of S
RECURSIVE DistinctSeqsUpTo(_, _)
DistinctSeqsUpTo(S, n) ==
  IF n = 0 THEN {<<>>}
  ELSE LET shorter == DistinctSeqsUpTo(S, n - 1)
       IN  shorter \cup
             {Append(t[1], t[2]) :
                t \in {u \in shorter \X S : \A i \in 1..Len(u[1]) : u[1][i] # u[2]}}

CsvInit ==
  /\ provider = "MongoAtlas"
  /\ RetryIdle /\ TransformIdle /\ FilterIdle /\ NameIdle /\ PageIdle
  /\ cpc = "invoices"
  /\ invoices = <<>>
  /\ slots = <<>>
  /\ completed = <<>>
  /\ csvText = <<>>
  /\ csvError = "none"

\* the invoice list arrives with status 200; invoices.map starts every download
InvoicesOk ==
  /\ cpc = "invoices"
  /\ \E list \in DistinctSeqsUpTo(InvoiceIds, MaxInvoices) :
       /\ invoices' = list
       /\ slots' = [i \in 1..Len(list) |-> Pending]
  /\ cpc' = "downloading"
  /\ UNCHANGED <<completed, csvText, csvError, provider, retryVars, transformVars,
                 filterVars, nameVars, pageVars>>

\* response.status !== 200: throw, caught, logged and thrown again
InvoicesFail ==
  /\ cpc = "invoices"
  /\ csvError' = "Error fetching invoices"
  /\ cpc' = "thrown"
  /\ UNCHANGED <<invoices, slots, completed, csvText, provider, retryVars, transformVars,
                 filterVars, nameVars, pageVars>>

\* the CSV of the invoice at position i arrives with status 200 and is filtered
DownloadOk ==
  /\ cpc \in {"downloading", "thrown"}
  /\ \E i \in 1..Len(slots) :
       /\ slots[i].state = "pending"
       /\ \E body \in CsvBodies(invoices[i]) :
            slots' = [slots EXCEPT ![i] = [state |-> "fulfilled", data |-> body,
                                           value |-> JoinLines(FilterLines(body, FALSE))]]
       /\ completed' = Append(completed, i)
  /\ UNCHANGED <<cpc, invoices, csvText, csvError, provider, retryVars, transformVars,
                 filterVars, nameVars, pageVars>>

\* csvResponse.status !== 200: the callback throws; Promise.all rejects with the
\* first rejection and the catch block throws it again
DownloadFail ==
  /\ cpc \in {"downloading", "thrown"}
  /\ \E i \in 1..Len(slots) :
       /\ slots[i].state = "pending"
       /\ slots' = [slots EXCEPT ![i] = [state |-> "rejected", data |-> <<>>, value |-> <<>>]]
       /\ completed' = Append(completed, i)
  /\ IF cpc = "downloading"
       THEN cpc' = "thrown" /\ csvError' = "Error fetching invoice CSV"
       ELSE UNCHANGED <<cpc, csvError>>
  /\ UNCHANGED <<invoices, csvText, provider, retryVars, transformVars,
                 filterVars, nameVars, pageVars>>

\* every promise is fulfilled: return allInvoicesData.join('\n')
PromiseAllResolves ==
  /\ cpc = "downloading"
  /\ \A i \in 1..Len(slots) : slots[i].state = "fulfilled"
  /\ csvText' = JoinTexts(AllInvoicesData(slots, completed))
  /\ cpc' = "returned"
  /\ UNCHANGED <<invoices, slots, completed, csvError, provider, retryVars, transformVars,
                 filterVars, nameVars, pageVars>>

CsvNext ==
  \/ InvoicesOk
  \/ InvoicesFail
  \/ DownloadOk
  \/ DownloadFail
  \/ PromiseAllResolves

SpecCsv == CsvInit /\ [][CsvNext]_vars

\* the position in the invoice list of the invoice a line belongs to (0: none)
C12_PositionOf(line) ==
  LET at == {i \in 1..Len(invoices) : \E j \in 1..Len(line) : line[j] = invoices[i]}
  IN  IF at = {} THEN 0 ELSE CHOOSE i \in at : TRUE

\* the filtered CSVs of positions i.. of the invoice list, joined in list order
RECURSIVE C12_InListOrder(_)
C12_InListOrder(i) ==
  IF i > Len(slots) THEN <<>>
  ELSE JoinLines(FilterLines(slots[i].data, FALSE)) \o C12_InListOrder(i + 1)

\* C12: for every order in which the concurrent CSV downloads complete, the text
\* returned is the concatenation of the filtered CSVs in the order of the invoice
\* list, so the lines of an earlier invoice precede those of a later one; and
\* when any CSV download answers with a non-200 status the fetch fails and
\* returns no text, partial or whole.
C12_ListOrderAndAllOrNothing ==
  /\ cpc = "returned" =>
       /\ \A i \in 1..Len(slots) : slots[i].state = "fulfilled"
       /\ csvText = (IF Len(slots) = 0 THEN << <<>> >> ELSE C12_InListOrder(1))
       /\ \A a, b \in 1..Len(csvText) :
            (a < b /\ C12_PositionOf(csvText[a]) # 0 /\ C12_PositionOf(csvText[b]) # 0)
              => C12_PositionOf(csvText[a]) <= C12_PositionOf(csvText[b])
  /\ (\E i \in 1..Len(slots) : slots[i].state = "rejected") =>
       (cpc = "thrown" /\ csvError = "Error fetching invoice CSV")
  /\ cpc # "returned" => csvText = <<>>

\* two invoices whose downloads completed in the reverse of the list order, both
\* with rows, and the text returned
C12_Witness ==
  /\ cpc = "returned"
  /\ Len(invoices) = 2
  /\ completed = <<2, 1>>
  /\ \A i \in 1..2 : Len(FilterLines(slots[i].data, FALSE)) > 0
  /\ C12_PositionOf(csvText[1]) = 1
  /\ C12_PositionOf(csvText[Len(csvText)]) = 2

\* one download failed after another had succeeded: the fetch threw, no text
C12_WitnessFailure ==
  /\ cpc = "thrown"
  /\ \E i, j \in 1..Len(slots) : slots[i].state = "fulfilled" /\ slots[j].state = "rejected"
  /\ csvText = <<>>

(***************************************************************************)
(* AwsClient.fetchCosts and AwsClient._fetchTags: the pagination loops.    *)
(* A provider result is a list of pages; the continuation token of a page  *)
(* is the position of the page after it, NoToken after the last page.  The *)
(* Filter, GroupBy and TimePeriod fields are the same in every request of  *)
(* one call and are left out of the input records.                         *)
(***************************************************************************)
\* ResultsByTime entries, named by their TimePeriod.Start
CostPages == {<<>>, <<"2024-04-01">>, <<"2024-04-02", "2024-04-03">>}
\* response.Tags; the empty string stands for a falsy entry
TagPages == {<<>>, <<"team", "">>, <<"env", "app">>}

PagesOf(o) == IF o = "fetchCosts" THEN CostPages ELSE TagPages

RECURSIVE PageLists(_, _)
PageLists(S, n) ==
  IF n = 1 THEN {<<x>> : x \in S}
  ELSE LET shorter == PageLists(S, n - 1)
       IN  shorter \cup {Append(t[1], t[2]) : t \in {u \in shorter : Len(u) = n - 1} \X S}

\* the provider's answer to a command: the first page when the input carries
\* no token, the page the token names otherwise
Answer(pgs, input) ==
  LET at == IF input.NextPageToken = NoToken THEN 1 ELSE input.NextPageToken
  IN  [items |-> pgs[at],
       NextPageToken |-> IF at < Len(pgs) THEN at + 1 ELSE NoToken]

\* an input that leaves the token out
InputWithoutToken(token) == [NextPageToken |-> NoToken]
\* GetCostAndUsageCommandInput: NextPageToken: nextPageToken
FetchCostsInput(token) == [NextPageToken |-> token]
\* GetTagsCommandInput: TimePeriod and TagKey only
FetchTagsInput(token) == [NextPageToken |-> NoToken]

\* if (tag) results.push(tag)
RECURSIVE PushTags(_, _)
PushTags(res, tgs) ==
  IF Len(tgs) = 0 THEN res
  ELSE PushTags(IF tgs[1] # "" THEN Append(res, tgs[1]) ELSE res, Tail(tgs))

\* the order of the strings under Array.prototype.sort
TagRank(t) == IF t = "app" THEN 1 ELSE IF t = "env" THEN 2 ELSE 3

RECURSIVE Insert(_, _)
Insert(sorted, t) ==
  IF Len(sorted) = 0 THEN <<t>>
  ELSE IF TagRank(t) < TagRank(sorted[1]) THEN <<t>> \o sorted
  ELSE <<sorted[1]>> \o Insert(Tail(sorted), t)

\* results.sort()
RECURSIVE Sort(_)
Sort(res) == IF Len(res) = 0 THEN <<>> ELSE Insert(Sort(Tail(res)), res[1])

PageInit ==
  /\ provider = "AWS"
  /\ RetryIdle /\ TransformIdle /\ FilterIdle /\ NameIdle /\ CsvIdle
  /\ op \in {"fetchCosts", "_fetchTags"}
  /\ pages \in PageLists(PagesOf(op), MaxPages)
  /\ sent = <<>>
  /\ responses = <<>>
  /\ results = <<>>
  /\ nextPageToken = NoToken
  /\ ppc = "send"

\* fetchCosts: client.send(new GetCostAndUsageCommand(input))
FetchCostsSend ==
  /\ op = "fetchCosts"
  /\ ppc = "send"
  /\ Len(sent) < MaxRequests
  /\ sent' = Append(sent, FetchCostsInput(nextPageToken))
  /\ ppc' = "await"
  /\ UNCHANGED <<op, pages, responses, results, nextPageToken, provider, retryVars,
                 transformVars, filterVars, nameVars, csvVars>>

\* fetchCosts: the response arrives; concat, take the token, test the loop
FetchCostsReceive ==
  /\ op = "fetchCosts"
  /\ ppc = "await"
  /\ LET response == Answer(pages, sent[Len(sent)])
     IN  /\ responses' = Append(responses, response)
         /\ results' = results \o response.items
         /\ nextPageToken' = response.NextPageToken
         /\ ppc' = IF response.NextPageToken # NoToken THEN "send" ELSE "returned"
  /\ UNCHANGED <<op, pages, sent, provider, retryVars, transformVars, filterVars,
                 nameVars, csvVars>>

\* _fetchTags: client.send(new GetTagsCommand(input))
FetchTagsSend ==
  /\ op = "_fetchTags"
  /\ ppc = "send"
  /\ Len(sent) < MaxRequests
  /\ sent' = Append(sent, FetchTagsInput(nextPageToken))
  /\ ppc' = "await"
  /\ UNCHANGED <<op, pages, responses, results, nextPageToken, provider, retryVars,
                 transformVars, filterVars, nameVars, csvVars>>

\* _fetchTags: the response arrives; push the truthy tags, take the token, test
\* the loop, and after the loop sort and return
FetchTagsReceive ==
  /\ op = "_fetchTags"
  /\ ppc = "await"
  /\ LET response == Answer(pages, sent[Len(sent)])
         pushed == PushTags(results, response.items)
     IN  /\ responses' = Append(responses, response)
         /\ nextPageToken' = response.NextPageToken
         /\ IF response.NextPageToken # NoToken
              THEN results' = pushed /\ ppc' = "send"
              ELSE results' = Sort(pushed) /\ ppc' = "returned"
  /\ UNCHANGED <<op, pages, sent, provider, retryVars, transformVars, filterVars,
                 nameVars, csvVars>>

PageNext ==
  \/ FetchCostsSend
  \/ FetchCostsReceive
  \/ FetchTagsSend
  \/ FetchTagsReceive

SpecPages == PageInit /\ [][PageNext]_vars

\* the items of the pages i.. of a page list, in order
RECURSIVE Flatten(_, _)
Flatten(pgs, i) == IF i > Len(pgs) THEN <<>> ELSE pgs[i] \o Flatten(pgs, i + 1)

\* each request after the first carries the token of the response before it
FollowsTokens ==
  /\ Len(sent) >= 1 => sent[1].NextPageToken = NoToken
  /\ \A i \in 2..Len(sent) :
       /\ responses[i - 1].NextPageToken # NoToken
       /\ sent[i].NextPageToken = responses[i - 1].NextPageToken

\* the loop has stopped exactly when the last response carried no token
StopsAtFirstTokenless ==
  /\ ppc = "returned" <=>
       /\ Len(responses) >= 1
       /\ Len(responses) = Len(sent)
       /\ responses[Len(responses)].NextPageToken = NoToken
  /\ \A i \in 1..(Len(responses) - 1) : responses[i].NextPageToken # NoToken

\* C13: in fetchCosts every request after the first carries the token of the
\* response just before it, the ResultsByTime of the responses are appended in
\* arrival order, the loop stops exactly after the first response without a
\* token, and on return n requests were sent for a result of n pages and the
\* output is page 1 followed by page 2 ... followed by page n.
C13_FetchCostsFollowsPages ==
  op = "fetchCosts" =>
    /\ FollowsTokens
    /\ StopsAtFirstTokenless
    /\ results = Flatten([i \in 1..Len(responses) |-> responses[i].items], 1)
    /\ ppc = "returned" =>
         /\ Len(sent) = Len(pages)
         /\ \A i \in 1..Len(pages) : responses[i].items = pages[i]
         /\ results = Flatten(pages, 1)

\* fetchCosts returned a result of two or more differing, non-empty pages
C13_Witness ==
  /\ op = "fetchCosts"
  /\ ppc = "returned"
  /\ Len(pages) >= 2
  /\ pages[1] # <<>> /\ pages[2] # <<>> /\ pages[1] # pages[2]
  /\ sent[2].NextPageToken # NoToken

\* C14: in _fetchTags every follow-up request moves on to the next page with
\* the token of the response before it, no page is requested twice, the loop
\* ends after the last page and returns the sorted non-empty tags of all pages.
C14_FetchTagsFollowsPages ==
  op = "_fetchTags" =>
    /\ FollowsTokens
    /\ StopsAtFirstTokenless
    /\ Len(sent) <= Len(pages)
    /\ ppc = "returned" =>
         /\ Len(sent) = Len(pages)
         /\ results = Sort(PushTags(<<>>, Flatten(pages, 1)))
====
